---- MODULE Spec2Model ----
(***************************************************************************)
(* Model of the Birdeye pass-through gateway (src/main.py).                *)
(*                                                                         *)
(* Every route handler is an `async def` whose only work is one blocking   *)
(* requests.get, so a single server process handles one inbound request   *)
(* at a time: a request is received (the handler builds the upstream call  *)
(* and issues it), then the HTTP client either returns a response or       *)
(* raises, and the handler classifies that into the request's outcome.     *)
(*                                                                         *)
(* Text is a sequence of one-character strings.  The fixed message         *)
(* prefixes of the source are single tokens (their leading pictograph is   *)
(* left out of the token's spelling).                                      *)
(***************************************************************************)
EXTENDS Integers, Sequences, FiniteSets, TLC

VARIABLES pc, req, upstream, sent, delay, resp, result, inWindow

vars == <<pc, req, upstream, sent, delay, resp, result, inWindow>>

(***************************************************************************)
(* Bounds of the model.                                                    *)
(***************************************************************************)
\* largest limit / count a caller asks for
MaxLimit == 101
\* longest plain upstream body, in characters
MaxBodyLen == 201
\* most forwarding calls issued inside one one-second window
MaxBurst == 11

(***************************************************************************)
(* Python values.                                                          *)
(***************************************************************************)
\* Python's None; no string the model draws as a key or a parameter equals it
None == "None"

\* truth value of an Optional[str]: None and the empty string are falsy
Truthy(s) == s # None /\ s # ""

\* Python's `a or b`
PyOr(a, b) == IF Truthy(a) THEN a ELSE b

\* Python's builtin min on two integers
min(a, b) == IF a <= b THEN a ELSE b

\* Python's s[:n] for n >= 0
Slice(s, n) == SubSeq(s, 1, min(Len(s), n))

(***************************************************************************)
(* Module-level configuration.                                             *)
(***************************************************************************)
API_KEY == "63171bd11b984f239e042b0b169463a4"
BASE_URL == "https://public-api.birdeye.so"

(***************************************************************************)
(* JSON.  The bodies of the model are flat objects written                 *)
(* {k v , k v ...} with one-character member names and values.             *)
(***************************************************************************)
JsonKeys == {"a", "b"}
JsonVals == {"1"}

JsonInvalid == [ok |-> FALSE]

RECURSIVE ParseMembers(_, _)
ParseMembers(s, acc) ==
    IF Len(s) < 2 \/ s[1] \notin JsonKeys \/ s[2] \notin JsonVals
    THEN JsonInvalid
    ELSE LET acc2 == [k \in (DOMAIN acc) \cup {s[1]} |->
                          IF k = s[1] THEN s[2] ELSE acc[k]]
         IN  IF Len(s) = 2 THEN [ok |-> TRUE, value |-> acc2]
             ELSE IF s[3] = "," THEN ParseMembers(SubSeq(s, 4, Len(s)), acc2)
             ELSE JsonInvalid

\* response.json(): the parsed body, or a decode failure
json(text) ==
    IF Len(text) < 2 \/ text[1] # "{" \/ text[Len(text)] # "}" THEN JsonInvalid
    ELSE IF Len(text) = 2 THEN [ok |-> TRUE, value |-> [k \in {} |-> "1"]]
    ELSE ParseMembers(SubSeq(text, 2, Len(text) - 1), [k \in {} |-> "1"])

(***************************************************************************)
(* fetch_from_birdeye                                                      *)
(***************************************************************************)
\* what a call of the forwarder ends with
Return(v) == [kind |-> "return", value |-> v]
HTTPException(code, detail) ==
    [kind |-> "HTTPException", status_code |-> code, detail |-> detail]
RequestException(e) == [kind |-> "RequestException", e |-> e]

\* url = f"{BASE_URL}{endpoint}"
Url(endpoint) == <<BASE_URL>> \o endpoint

Headers(api_key) ==
    [X_API_KEY |-> PyOr(api_key, API_KEY), Accept |-> "application/json"]

\* the outbound call requests.get(url, params=params, headers=headers)
Call(endpoint, params, api_key) ==
    [method |-> "GET", url |-> Url(endpoint), params |-> params,
     headers |-> Headers(api_key)]

\* variant: a rate gate that pauses one second past 10 calls in a window
ThrottleGate(n) == IF n > 10 THEN 1 ELSE 0

\* seconds the forwarder pauses before the n-th call of a one-second window
Throttle(n) == 0

\* variant: the GET is issued a second time
IssueGetTwice(calls, call) == Append(Append(calls, call), call)

\* the outbound calls of one request after requests.get is reached
IssueGet(calls, call) == Append(calls, call)

\* variant: the parsed body is wrapped in an envelope
OkEnvelope(response) ==
    LET j == json(response.text)
    IN  IF j.ok THEN Return([success |-> TRUE, data |-> j.value])
        ELSE RequestException("JSONDecodeError")

\* a body that does not decode makes response.json() raise
\* requests.exceptions.JSONDecodeError, a RequestException
Ok(response) ==
    LET j == json(response.text)
    IN  IF j.ok THEN Return(j.value) ELSE RequestException("JSONDecodeError")

BadRequest(response) ==
    HTTPException(400, <<"Bad Request: ">> \o response.text)

\* variant: the 401 detail echoes the upstream body, as the 400 detail does
UnauthorizedEcho(response) ==
    HTTPException(401, <<"Unauthorized: ">> \o response.text)

Unauthorized(response) ==
    HTTPException(401, <<"Unauthorized: API key is invalid or missing">>)

TooManyRequests(response) ==
    HTTPException(429, <<"Rate limit exceeded. Please try again later.">>)

\* variant: the body text is not truncated
UnexpectedFull(response) ==
    HTTPException(response.status_code, <<"Unexpected Error: ">> \o response.text)

\* variant: no else branch, the function falls off its end and returns None
UnexpectedFallThrough(response) == Return(None)

Unexpected(response) ==
    HTTPException(response.status_code,
                  <<"Unexpected Error: ">> \o Slice(response.text, 200))

\* the body of the try block once requests.get is over
TryBlock(r) ==
    IF r.kind = "raise" THEN RequestException(r.e)
    ELSE IF r.status_code = 200 THEN Ok(r)
    ELSE IF r.status_code = 400 THEN BadRequest(r)
    ELSE IF r.status_code = 401 THEN Unauthorized(r)
    ELSE IF r.status_code = 429 THEN TooManyRequests(r)
    ELSE Unexpected(r)

\* variant: `except Exception`, which catches the HTTPException as well
CaughtAny(o) == o.kind \in {"RequestException", "HTTPException"}

\* except requests.RequestException: which outcomes of the try block it catches
Caught(o) == o.kind = "RequestException"

\* str(e) of a caught exception
Str(o) == IF o.kind = "RequestException" THEN o.e ELSE o.kind

\* variant: the failure is returned as a body instead of raised
ExceptBlockSoft(o) ==
    Return([error |-> "connection_error", message |-> Str(o), status_code |-> 500])

ExceptBlock(o) == HTTPException(500, <<"Connection Error: ", Str(o)>>)

\* the outcome of fetch_from_birdeye once the client returned or raised r
Outcome(r) ==
    LET o == TryBlock(r) IN IF Caught(o) THEN ExceptBlock(o) ELSE o

(***************************************************************************)
(* Route handlers: the arguments each passes to fetch_from_birdeye.        *)
(***************************************************************************)
Args(endpoint, params, api_key) ==
    [endpoint |-> endpoint, params |-> params, api_key |-> api_key]

home == [message |-> "Birdeye API is running!", version |-> "1.0.0"]

get_token_overview(q) ==
    Args(<<"/defi/token_overview?address=", q.address>>, None, q.x_api_key)

get_token_overview_public(q) ==
    Args(<<"/defi/token_overview?address=", q.address>>, None, None)

get_token_list(q) ==
    Args(<<"/defi/tokenlist">>,
         [sort_by |-> q.sort_by, sort_type |-> q.sort_type, offset |-> q.offset,
          limit |-> min(q.limit, 100), chain_id |-> q.chain_id],
         q.x_api_key)

get_token_list_public(q) ==
    Args(<<"/defi/tokenlist">>,
         [sort_by |-> q.sort_by, sort_type |-> q.sort_type, offset |-> q.offset,
          limit |-> min(q.limit, 100), chain_id |-> q.chain_id],
         None)

get_token_security(q) ==
    Args(<<"/defi/token_security?address=", q.address>>, None, q.x_api_key)

\* variant: the public twin forwards the caller's header
get_token_security_public_override(q) ==
    Args(<<"/defi/token_security?address=", q.address>>, None, q.x_api_key)

get_token_security_public(q) ==
    Args(<<"/defi/token_security?address=", q.address>>, None, None)

get_token_creation_info(q) ==
    Args(<<"/defi/token_creation_info?address=", q.address>>, None, q.x_api_key)

get_token_creation_info_public(q) ==
    Args(<<"/defi/token_creation_info?address=", q.address>>, None, None)

get_new_token_listings(q) ==
    Args(<<"/defi/v2/tokens/new_listing">>,
         [count |-> min(q.count, 100), offset |-> q.offset,
          chain_id |-> q.chain_id],
         q.x_api_key)

get_new_token_listings_public(q) ==
    Args(<<"/defi/v2/tokens/new_listing">>,
         [count |-> min(q.count, 100), offset |-> q.offset,
          chain_id |-> q.chain_id],
         None)

get_markets(q) ==
    Args(<<"/defi/v2/markets">>,
         [count |-> min(q.count, 100), offset |-> q.offset,
          sort_by |-> q.sort_by, sort_type |-> q.sort_type,
          chain_id |-> q.chain_id],
         q.x_api_key)

get_markets_public(q) ==
    Args(<<"/defi/v2/markets">>,
         [count |-> min(q.count, 100), offset |-> q.offset,
          sort_by |-> q.sort_by, sort_type |-> q.sort_type,
          chain_id |-> q.chain_id],
         None)

get_token_price(q) ==
    Args(<<"/defi/price?address=", q.address>>,
         [chain_id |-> q.chain_id], q.x_api_key)

get_token_price_public(q) ==
    Args(<<"/defi/price?address=", q.address>>, [chain_id |-> q.chain_id], None)

get_token_price_history(q) ==
    Args(<<"/defi/price_history?address=", q.address>>,
         [type |-> q.type, chain_id |-> q.chain_id], q.x_api_key)

get_token_price_history_public(q) ==
    Args(<<"/defi/price_history?address=", q.address>>,
         [type |-> q.type, chain_id |-> q.chain_id], None)

get_token_holders(q) ==
    Args(<<"/defi/token_holders?address=", q.address>>,
         [offset |-> q.offset, limit |-> min(q.limit, 100),
          chain_id |-> q.chain_id],
         q.x_api_key)

get_token_holders_public(q) ==
    Args(<<"/defi/token_holders?address=", q.address>>,
         [offset |-> q.offset, limit |-> min(q.limit, 100),
          chain_id |-> q.chain_id],
         None)

get_trending_tokens(q) ==
    Args(<<"/defi/trending_tokens">>,
         [count |-> min(q.count, 100), chain_id |-> q.chain_id], q.x_api_key)

\* variant: the count is forwarded as asked
get_trending_tokens_public_unclamped(q) ==
    Args(<<"/defi/trending_tokens">>,
         [count |-> q.count, chain_id |-> q.chain_id], None)

get_trending_tokens_public(q) ==
    Args(<<"/defi/trending_tokens">>,
         [count |-> min(q.count, 100), chain_id |-> q.chain_id], None)

\* the route table: the handler the framework runs for an inbound request
Dispatch(q) ==
    CASE q.route = "/token/overview/{address}" -> get_token_overview(q)
      [] q.route = "/public/token/overview/{address}" -> get_token_overview_public(q)
      [] q.route = "/token/list" -> get_token_list(q)
      [] q.route = "/public/token/list" -> get_token_list_public(q)
      [] q.route = "/token/security/{address}" -> get_token_security(q)
      [] q.route = "/public/token/security/{address}" -> get_token_security_public(q)
      [] q.route = "/token/creation/{address}" -> get_token_creation_info(q)
      [] q.route = "/public/token/creation/{address}" -> get_token_creation_info_public(q)
      [] q.route = "/tokens/new" -> get_new_token_listings(q)
      [] q.route = "/public/tokens/new" -> get_new_token_listings_public(q)
      [] q.route = "/markets" -> get_markets(q)
      [] q.route = "/public/markets" -> get_markets_public(q)
      [] q.route = "/token/price/{address}" -> get_token_price(q)
      [] q.route = "/public/token/price/{address}" -> get_token_price_public(q)
      [] q.route = "/token/history/{address}" -> get_token_price_history(q)
      [] q.route = "/public/token/history/{address}" -> get_token_price_history_public(q)
      [] q.route = "/token/holders/{address}" -> get_token_holders(q)
      [] q.route = "/public/token/holders/{address}" -> get_token_holders_public(q)
      [] q.route = "/tokens/trending" -> get_trending_tokens(q)
      [] q.route = "/public/tokens/trending" -> get_trending_tokens_public(q)

(***************************************************************************)
(* Inbound requests, after the framework applied the declared defaults.    *)
(***************************************************************************)
AuthRoutes ==
    {"/token/overview/{address}", "/token/list", "/token/security/{address}",
     "/token/creation/{address}", "/tokens/new", "/markets",
     "/token/price/{address}", "/token/history/{address}",
     "/token/holders/{address}", "/tokens/trending"}

PublicRoutes ==
    {"/public/token/overview/{address}", "/public/token/list",
     "/public/token/security/{address}", "/public/token/creation/{address}",
     "/public/tokens/new", "/public/markets", "/public/token/price/{address}",
     "/public/token/history/{address}", "/public/token/holders/{address}",
     "/public/tokens/trending"}

\* the X-API-KEY header of the inbound request: absent, empty, or a key
XApiKeys == {None, "", "caller-key"}

Addresses == {"So11111111111111111111111111111111111111112"}
ChainIds == {"solana"}
Offsets == {0}
SortTypes == {"d"}
Types == {"1D"}
LimitValues == {-1, 0, 10} \cup (100..MaxLimit)

InboundRequests ==
    LET shapes ==
               [route : {"/token/overview/{address}", "/public/token/overview/{address}",
                         "/token/security/{address}", "/public/token/security/{address}",
                         "/token/creation/{address}", "/public/token/creation/{address}"},
                address : Addresses, x_api_key : XApiKeys]
          \cup [route : {"/token/list", "/public/token/list"},
                sort_by : {"mc"}, sort_type : SortTypes, offset : Offsets,
                limit : LimitValues, chain_id : ChainIds, x_api_key : XApiKeys]
          \cup [route : {"/tokens/new", "/public/tokens/new"},
                count : LimitValues, offset : Offsets, chain_id : ChainIds,
                x_api_key : XApiKeys]
          \cup [route : {"/markets", "/public/markets"},
                count : LimitValues, offset : Offsets, sort_by : {"v24hUSD"},
                sort_type : SortTypes, chain_id : ChainIds, x_api_key : XApiKeys]
          \cup [route : {"/token/price/{address}", "/public/token/price/{address}"},
                address : Addresses, chain_id : ChainIds, x_api_key : XApiKeys]
          \cup [route : {"/token/history/{address}", "/public/token/history/{address}"},
                address : Addresses, type : Types, chain_id : ChainIds,
                x_api_key : XApiKeys]
          \cup [route : {"/token/holders/{address}", "/public/token/holders/{address}"},
                address : Addresses, offset : Offsets, limit : LimitValues,
                chain_id : ChainIds, x_api_key : XApiKeys]
          \cup [route : {"/tokens/trending", "/public/tokens/trending"},
                count : LimitValues, chain_id : ChainIds, x_api_key : XApiKeys]
    IN  {q \in shapes : q.route \in PublicRoutes => q.x_api_key # ""}

(***************************************************************************)
(* The upstream: what one requests.get can end with.                       *)
(***************************************************************************)
\* the JSON objects the upstream may answer with
JsonObjects == UNION {[K -> JsonVals] : K \in SUBSET JsonKeys}

Orderings(S) ==
    {f \in [1..Cardinality(S) -> S] : \A i, j \in DOMAIN f : f[i] = f[j] => i = j}

RECURSIVE Members(_, _)
Members(o, order) ==
    IF order = <<>> THEN <<>>
    ELSE <<Head(order), o[Head(order)]>>
         \o (IF Len(order) = 1 THEN <<>> ELSE <<",">>)
         \o Members(o, Tail(order))

\* the texts that write the object o: its members in any order
Serialize(o) == {<<"{">> \o Members(o, f) \o <<"}">> : f \in Orderings(DOMAIN o)}

JsonTexts == UNION {Serialize(o) : o \in JsonObjects}

\* bodies that are not JSON: n times the character x
PlainTexts == {[i \in 1..n |-> "x"] : n \in {0, 1} \cup (200..MaxBodyLen)}

Texts == JsonTexts \cup PlainTexts

StatusCodes == {200, 400, 401, 429, 500}

\* the subclasses of requests.RequestException a failed GET raises
NetworkErrors == {"ConnectionError", "ConnectTimeout"}

Response(code, text) == [kind |-> "response", status_code |-> code, text |-> text]
Raise(e) == [kind |-> "raise", e |-> e]

\* how the upstream behaves for one call: it answers, it cannot be reached,
\* or it accepts the connection and never answers
UpstreamModes == {"answers", "unreachable", "silent"}

NoRequest == [route |-> None]
NoResponse == [kind |-> "none"]
NoResult == [kind |-> "none"]

(***************************************************************************)
(* The state machine.                                                      *)
(***************************************************************************)
Init ==
    /\ pc = "idle"
    /\ req = NoRequest
    /\ upstream = "answers"
    /\ sent = <<>>
    /\ delay = 0
    /\ resp = NoResponse
    /\ result = NoResult
    /\ inWindow = 0

\* GET /: answered locally
Home ==
    /\ pc = "idle"
    /\ pc' = "done"
    /\ req' = [route |-> "/"]
    /\ sent' = <<>>
    /\ delay' = 0
    /\ resp' = NoResponse
    /\ result' = Return(home)
    /\ UNCHANGED <<upstream, inWindow>>

\* a forwarding route is called: the handler builds the arguments and
\* fetch_from_birdeye runs up to its requests.get
Receive(q, mode) ==
    /\ pc = "idle"
    /\ inWindow < MaxBurst
    /\ LET a == Dispatch(q)
       IN  /\ delay' = Throttle(inWindow + 1)
           /\ sent' = IssueGet(<<>>, Call(a.endpoint, a.params, a.api_key))
    /\ pc' = "waiting"
    /\ req' = q
    /\ upstream' = mode
    /\ resp' = NoResponse
    /\ result' = NoResult
    /\ inWindow' = inWindow + 1

\* requests.get returns a response; fetch_from_birdeye classifies it
Respond(code, text) ==
    /\ pc = "waiting"
    /\ upstream = "answers"
    /\ resp' = Response(code, text)
    /\ result' = Outcome(resp')
    /\ pc' = "done"
    /\ UNCHANGED <<req, upstream, sent, delay, inWindow>>

\* requests.get raises; the except block turns it into the 500
Fail(e) ==
    /\ pc = "waiting"
    /\ upstream = "unreachable"
    /\ resp' = Raise(e)
    /\ result' = Outcome(resp')
    /\ pc' = "done"
    /\ UNCHANGED <<req, upstream, sent, delay, inWindow>>

\* the framework relays the outcome to the caller; nothing of the request
\* is kept
Reply ==
    /\ pc = "done"
    /\ pc' = "idle"
    /\ req' = NoRequest
    /\ upstream' = "answers"
    /\ sent' = <<>>
    /\ delay' = 0
    /\ resp' = NoResponse
    /\ result' = NoResult
    /\ UNCHANGED inWindow

\* a second passes: a new one-second window begins
Tick ==
    /\ inWindow > 0
    /\ inWindow' = 0
    /\ UNCHANGED <<pc, req, upstream, sent, delay, resp, result>>

Receiving == \E q \in InboundRequests, mode \in UpstreamModes : Receive(q, mode)
Responding == \E code \in StatusCodes, text \in Texts : Respond(code, text)
Failing == \E e \in NetworkErrors : Fail(e)

Next == Home \/ Receiving \/ Responding \/ Failing \/ Reply \/ Tick

Spec == Init /\ [][Next]_vars

\* the HTTP client returns as soon as the upstream answered or the
\* connection failed, and the handler then runs to its end
FairSpec == Spec /\ WF_vars(Responding) /\ WF_vars(Failing)

TypeOK ==
    /\ pc \in {"idle", "waiting", "done"}
    /\ upstream \in UpstreamModes
    /\ inWindow \in 0..MaxBurst
    /\ delay \in Nat
    /\ Len(sent) <= 1

(***************************************************************************)
(* Properties.                                                             *)
(***************************************************************************)
Forwarding == pc \in {"waiting", "done"} /\ req.route # "/"

Answered == pc = "done" /\ resp.kind = "response"

NetworkFailed == pc = "done" /\ resp.kind = "raise"

\* text t occurs in the detail d
Contains(d, t) ==
    \E i \in 0..(Len(d) - Len(t)) : SubSeq(d, i + 1, i + Len(t)) = t

\* the credential header of the outbound call
SentKey == sent[1].headers.X_API_KEY

LimitRoutes ==
    {"/token/list", "/public/token/list",
     "/token/holders/{address}", "/public/token/holders/{address}"}

CountRoutes ==
    {"/tokens/new", "/public/tokens/new", "/markets", "/public/markets",
     "/tokens/trending", "/public/tokens/trending"}

Clamped(v) == IF v > 100 THEN 100 ELSE v

\* C1: when the upstream answers 200 with a body that writes the JSON
\* object B, the request's result is exactly B and no error is raised.
C1_PassThrough ==
    \A B \in JsonObjects :
        (Answered /\ resp.status_code = 200 /\ resp.text \in Serialize(B))
            => result = [kind |-> "return", value |-> B]

C1_Witness ==
    /\ Answered /\ resp.status_code = 200
    /\ resp.text = <<"{", "b", "1", ",", "a", "1", "}">>
    /\ result.kind = "return"
    /\ DOMAIN result.value = {"a", "b"}

\* C2: every non-200 upstream status s ends the request with an HTTP error
\* of status s, never re-classified as the 500 connection error.
C2_StatusMirrored ==
    (Answered /\ resp.status_code # 200)
        => /\ result.kind = "HTTPException"
           /\ result.status_code = resp.status_code
           /\ result.detail[1] # "Connection Error: "

C2_Witness ==
    /\ Answered /\ resp.status_code = 500
    /\ result.kind = "HTTPException" /\ result.status_code = 500
    /\ result.detail[1] = "Unexpected Error: "

\* C3 as stated: on an upstream 401 the gateway reports 401 and the error
\* detail holds the text of the upstream response body.
C3_Original ==
    (Answered /\ resp.status_code = 401)
        => /\ result.kind = "HTTPException"
           /\ result.status_code = 401
           /\ Contains(result.detail, resp.text)

\* C3 amended: on an upstream 401 the gateway reports 401 and the error
\* detail is the fixed message, whatever the upstream body says.
C3_FixedDetail ==
    (Answered /\ resp.status_code = 401)
        => /\ result.kind = "HTTPException"
           /\ result.status_code = 401
           /\ result.detail = <<"Unauthorized: API key is invalid or missing">>

C3_Witness ==
    /\ Answered /\ resp.status_code = 401 /\ Len(resp.text) > 0
    /\ result.kind = "HTTPException" /\ result.status_code = 401

\* C4: when the GET raises a request exception the request ends with
\* status 500 and a connection-error detail, never with a success body.
C4_ConnectionError ==
    NetworkFailed
        => /\ result.kind = "HTTPException"
           /\ result.status_code = 500
           /\ result.detail = <<"Connection Error: ", resp.e>>

C4_Witness ==
    /\ NetworkFailed /\ resp.e = "ConnectTimeout"
    /\ result.kind = "HTTPException" /\ result.status_code = 500

C6_Clamp ==
    /\ (Forwarding /\ req.route \in LimitRoutes)
           => sent[1].params.limit = Clamped(req.limit)
    /\ (Forwarding /\ req.route \in CountRoutes)
           => sent[1].params.count = Clamped(req.count)

C6_Witness ==
    /\ Forwarding /\ req.route = "/public/tokens/trending"
    /\ req.count > 100
    /\ sent[1].params.count = 100

\* C7 as stated: the credential sent upstream is the caller's override
\* whenever one is supplied on an authenticated route, the process default
\* otherwise, and the process default on every /public/ route.
C7_Original ==
    Forwarding =>
        SentKey = IF req.route \in AuthRoutes /\ req.x_api_key # None
                  THEN req.x_api_key ELSE API_KEY

\* C7 amended: the credential sent upstream is the caller's override
\* whenever a non-empty one is supplied on an authenticated route, and the
\* process default otherwise (no header, an empty header, any /public/ route).
C7_Credential ==
    Forwarding =>
        SentKey = IF req.route \in AuthRoutes /\ req.x_api_key \notin {None, ""}
                  THEN req.x_api_key ELSE API_KEY

C7_Witness ==
    /\ Forwarding /\ req.route \in AuthRoutes
    /\ req.x_api_key = "caller-key"
    /\ SentKey = "caller-key"

\* C8 as stated: a forwarding call past the 10th of a one-second window
\* is delayed before its upstream call is made.
C8_Original == (Forwarding /\ inWindow > 10) => delay > 0

\* C8 amended: a forwarding call past the 10th of a one-second window is
\* issued without any delay, and it completes successfully when the upstream
\* answers 200 with a JSON body.
C8_NoGate ==
    (Forwarding /\ inWindow > 10)
        => /\ delay = 0
           /\ Len(sent) = 1
           /\ (Answered /\ resp.status_code = 200 /\ resp.text \in JsonTexts)
                  => result.kind = "return"

C8_Witness ==
    /\ Answered /\ req.route # "/" /\ inWindow = 11
    /\ resp.status_code = 200 /\ result.kind = "return"
    /\ delay = 0

\* the outcome of a finished forwarding request is one of the three kinds,
\* the one its response calls for
OneOutcome ==
    (pc = "done" /\ req.route # "/") =>
        \/ /\ resp.kind = "response" /\ resp.status_code = 200
           /\ json(resp.text).ok
           /\ result.kind = "return"
        \/ /\ resp.kind = "response" /\ resp.status_code # 200
           /\ result.kind = "HTTPException"
           /\ result.status_code = resp.status_code
        \/ /\ \/ resp.kind = "raise"
              \/ resp.kind = "response" /\ resp.status_code = 200
                 /\ ~json(resp.text).ok
           /\ result.kind = "HTTPException"
           /\ result.status_code = 500
           /\ result.detail[1] = "Connection Error: "

\* C9 as stated: every request eventually reaches a terminal outcome, also
\* when the upstream never answers.
C9_Original == (pc = "waiting") ~> (pc = "done")

\* C9 amended: a request whose GET returns or raises reaches exactly one
\* terminal outcome (body, mirrored HTTP error, connection error), the
\* connection error when the upstream is unreachable; until then it has no
\* outcome.  No timeout is set, so a request whose upstream never answers
\* stays pending.
C9_Terminates ==
    /\ (pc = "waiting" /\ upstream # "silent") ~> (pc = "done")
    /\ [](OneOutcome)
    /\ [](pc = "waiting" => result = NoResult)
    /\ []((pc = "done" /\ upstream = "unreachable") => result.status_code = 500)

C9_Witness ==
    /\ pc = "done" /\ upstream = "unreachable"
    /\ resp.kind = "raise"
    /\ result.kind = "HTTPException" /\ result.status_code = 500

\* C10 as stated: for every non-200 response the failure carries the
\* upstream status code and the upstream body text cut to 200 characters.
C10_Original ==
    (Answered /\ resp.status_code # 200)
        => /\ result.kind = "HTTPException"
           /\ result.status_code = resp.status_code
           /\ Tail(result.detail) = Slice(resp.text, 200)

\* C10 amended: for every non-200 response the failure carries the upstream
\* status code; the body text cut to 200 characters follows the message for
\* the statuses other than 400, 401 and 429, the whole body text for 400,
\* and no body text for 401 and 429.
C10_Detail ==
    (Answered /\ resp.status_code # 200)
        => /\ result.kind = "HTTPException"
           /\ result.status_code = resp.status_code
           /\ resp.status_code \notin {400, 401, 429}
                  => /\ Tail(result.detail) = Slice(resp.text, 200)
                     /\ Len(Tail(result.detail)) <= 200
           /\ resp.status_code = 400 => Tail(result.detail) = resp.text
           /\ resp.status_code \in {401, 429} => Tail(result.detail) = <<>>

C10_Witness ==
    /\ Answered /\ resp.status_code = 500
    /\ Len(resp.text) > 200
    /\ Len(result.detail) = 201

====
